---- MODULE Spec2Model ----
(***************************************************************************)
(* Model of the GoodChat ability facade, conversation reconciler and       *)
(* message dispatcher:                                                     *)
(*   src/lib/services/abilities/abilities.ts  (the richer facade)          *)
(*   src/lib/services/abilities/index.ts      (the simpler facade)         *)
(*   src/unnamed/part_000                     (upsertConversation)         *)
(* The persistence store, the rule engine (./rules) and the provider       *)
(* client are not part of these files; their primitives are modelled from  *)
(* the written specification.                                              *)
(***************************************************************************)
EXTENDS Integers, Sequences, FiniteSets, TLC

\* ------------------------------------------------------------------------
\* Bounds of the model
\* ------------------------------------------------------------------------

\* number of concurrent requests (call slots)
MaxCalls == 2

\* number of Conversation rows the reconciler may create on top of the seed
MaxNewConvs == 1

\* ------------------------------------------------------------------------
\* JavaScript values: a nullable or optional field is a tagged value
\* ------------------------------------------------------------------------

\* the key is not present in the object
Absent == [t |-> "absent"]

\* the key is present and holds undefined
Undefined == [t |-> "undefined"]

Null == [t |-> "null"]

Num(n) == [t |-> "number", n |-> n]

Str(s) == [t |-> "string", s |-> s]

\* an object value (always truthy)
Obj(o) == [t |-> "object", o |-> o]

\* !v in JavaScript: undefined, null, 0 and '' are falsy
Falsy(v) ==
  \/ v.t \in {"undefined", "null"}
  \/ (v.t = "number" /\ v.n = 0)
  \/ (v.t = "string" /\ v.s = "")

\* _.isString
isString(v) == v.t = "string"

\* ------------------------------------------------------------------------
\* Enumerations and input sets
\* ------------------------------------------------------------------------

CUSTOMER == "CUSTOMER"

PRIVATE == "PRIVATE"

ConversationType == {CUSTOMER, PRIVATE}

STAFF == "STAFF"

SYSTEM == "SYSTEM"

\* external conversation identities handed out by the provider
ExtIds == {"ext-a", "ext-b"}

\* candidate values of the fill-once fields
CustomerIds == {1, 2}

Sources == {"", "web", "sms"}

\* ------------------------------------------------------------------------
\* Staff principals and the rule engine (./rules)
\* ------------------------------------------------------------------------

\* where-clause keys of a Conversation filter
WhereKeys == {"type", "id", "customerId"}

NoFilter == [k \in WhereKeys |-> Absent]

\* the principals: 1 has unrestricted visibility, 2 is restricted by type
Staffs == {[id |-> 1, role |-> "admin"], [id |-> 2, role |-> "agent"]}

\* the principals of the access checks: 3 has unrestricted visibility like 1,
\* and may join the types 2 may join
Principals == Staffs \cup {[id |-> 3, role |-> "auditor"]}

\* the filter predicate of a principal: field constraints, logically ANDed
getConversationRules(staff) ==
  IF staff.role \in {"admin", "auditor"}
    THEN NoFilter
    ELSE [NoFilter EXCEPT !["type"] = Str(CUSTOMER)]

\* the conversation types a principal may join
allowedConversationTypes(staff) ==
  IF staff.role = "admin" THEN {CUSTOMER, PRIVATE} ELSE {CUSTOMER}

\* ------------------------------------------------------------------------
\* State
\* ------------------------------------------------------------------------

VARIABLES
  conversations,       \* Seq of Conversation rows; a row's id is its index
  recency,             \* Seq of conversation ids, most recently updated first
  messages,            \* Seq of Message rows; a row's id is its index
  staffConversations,  \* Seq of StaffConversation rows
  posted,              \* Seq of messages the provider accepted
  calls,               \* call slot -> the request running in it
  lastRead             \* the last read served by the facade

vars == <<conversations, recency, messages, staffConversations, posted, calls,
          lastRead>>

CallIds == 1..MaxCalls

Idle == [op |-> "none", pc |-> "idle"]

NoRead == [op |-> "none"]

\* ------------------------------------------------------------------------
\* Sequences helpers
\* ------------------------------------------------------------------------

RECURSIVE SelectIds(_, _, _)
\* the ids of `order` (kept in order) whose row satisfies Test
SelectIds(order, Test(_), i) ==
  IF i > Len(order) THEN <<>>
  ELSE IF Test(order[i]) THEN <<order[i]>> \o SelectIds(order, Test, i + 1)
  ELSE SelectIds(order, Test, i + 1)

\* skip/take of findMany
Page(seq, skip, take) ==
  SubSeq(seq, skip + 1, IF skip + take > Len(seq) THEN Len(seq) ELSE skip + take)

\* `id` moved to the front of the recency order (updatedAt = now)
Touch(order, id) ==
  <<id>> \o SelectIds(order, LAMBDA j : j # id, 1)

\* ------------------------------------------------------------------------
\* The seed store
\* ------------------------------------------------------------------------

ConvRow(id, ext, type, customerId, source) ==
  [id |-> id, sunshineConversationId |-> ext, type |-> type,
   customerId |-> customerId, source |-> source]

SeedConversations ==
  << ConvRow(1, Str("ext-a"), CUSTOMER, Null, Null),
     ConvRow(2, Null, PRIVATE, Null, Null),
     ConvRow(3, Null, CUSTOMER, Num(1), Str("web")) >>

SeedRecency == <<1, 3, 2>>

MsgRow(id, conversationId, content, pid, authorType, authorId) ==
  [id |-> id, conversationId |-> conversationId, content |-> content,
   sunshineMessageId |-> pid, authorType |-> authorType, authorId |-> authorId]

\* one staff message in the internal conversation, one customer message that
\* came in through the webhook
SeedMessages ==
  << MsgRow(1, 2, "hello", Null, STAFF, 1),
     MsgRow(2, 1, "hi", Str("prov-0"), CUSTOMER, 0) >>

Init ==
  /\ conversations = SeedConversations
  /\ recency = SeedRecency
  /\ messages = SeedMessages
  /\ staffConversations = <<>>
  /\ posted = <<>>
  /\ calls = [c \in CallIds |-> Idle]
  /\ lastRead = NoRead

\* slots are taken in order
CanStart(c) ==
  /\ calls[c].pc = "idle"
  /\ IF c = 1 THEN TRUE ELSE calls[c - 1].pc # "idle"

\* ------------------------------------------------------------------------
\* Store primitives on Conversation (create / upsert / update / find)
\* ------------------------------------------------------------------------

\* the ids of the rows whose external identity is `ext` (a unique key)
ConversationsByExt(ext) ==
  {i \in 1..Len(conversations) : conversations[i].sunshineConversationId = ext}

\* another row already holds the non-null external identity `ext`
ExtTaken(ext, id) ==
  /\ ext # Null
  /\ \E i \in ConversationsByExt(ext) : i # id

\* ------------------------------------------------------------------------
\* Conversation Reconciler: upsertConversation (src/unnamed/part_000)
\* ------------------------------------------------------------------------

\* the candidate records (Unsaved<Conversation>)
Candidates ==
  [sunshineConversationId : {Null} \cup {Str(e) : e \in ExtIds},
   type : ConversationType,
   customerId : {Null} \cup {Num(n) : n \in CustomerIds},
   source : {Null} \cup {Str(s) : s \in Sources}]

\* create: { ...data, sunshineConversationId }
upsertCreate(key, data, id) ==
  ConvRow(id, Str(key), data.type, data.customerId, data.source)

\* update: _.omit(data, ['metadata', 'externalId', 'source', 'customerId'])
upsertUpdate(row, data) ==
  [row EXCEPT !.sunshineConversationId = data.sunshineConversationId,
              !.type = data.type]

\* the follow-up `update` object: Absent where the key is not set
fillOnce(conversation, data) ==
  [customerId |->
     IF conversation.customerId = Null /\ data.customerId # Null
       THEN data.customerId ELSE Absent,
   source |->
     IF Falsy(conversation.source) /\ isString(data.source)
       THEN data.source ELSE Absent]

\* the calls that had returned when a call starts
Returned == {d \in CallIds : calls[d].pc = "done"}

\* first step: db.conversation.upsert keyed on the external identity
UpsertConversation(c, key, data) ==
  /\ CanStart(c)
  /\ LET hit == ConversationsByExt(Str(key))
         call == [op |-> "upsertConversation", pc |-> "update", key |-> key,
                  data |-> data, after |-> Returned, conversation |-> Null,
                  outcome |-> "pending", result |-> Null]
     IN IF hit = {}
          THEN /\ Len(conversations) < Len(SeedConversations) + MaxNewConvs
               /\ LET id == Len(conversations) + 1
                      row == upsertCreate(key, data, id)
                  IN /\ conversations' = Append(conversations, row)
                     /\ recency' = <<id>> \o recency
                     /\ calls' = [calls EXCEPT ![c] =
                          [call EXCEPT !.conversation = row]]
          ELSE LET id == CHOOSE i \in hit : TRUE
                   row == upsertUpdate(conversations[id], data)
               IN IF ExtTaken(row.sunshineConversationId, id)
                    THEN /\ calls' = [calls EXCEPT ![c] =
                              [call EXCEPT !.pc = "done", !.outcome = "storeError"]]
                         /\ UNCHANGED <<conversations, recency>>
                    ELSE /\ conversations' = [conversations EXCEPT ![id] = row]
                         /\ recency' = Touch(recency, id)
                         /\ calls' = [calls EXCEPT ![c] =
                              [call EXCEPT !.conversation = row]]
  /\ UNCHANGED <<messages, staffConversations, posted, lastRead>>

\* second step: the conditional db.conversation.update of the fill-once fields
UpsertConversationUpdate(c) ==
  /\ calls[c].op = "upsertConversation"
  /\ calls[c].pc = "update"
  /\ LET conversation == calls[c].conversation
         update == fillOnce(conversation, calls[c].data)
         id == conversation.id
         row == [conversations[id] EXCEPT
                   !.customerId = IF update.customerId = Absent THEN @
                                  ELSE update.customerId,
                   !.source = IF update.source = Absent THEN @ ELSE update.source]
     IN IF update.customerId # Absent \/ update.source # Absent
          THEN /\ conversations' = [conversations EXCEPT ![id] = row]
               /\ recency' = Touch(recency, id)
               /\ calls' = [calls EXCEPT ![c] =
                    [@ EXCEPT !.pc = "done", !.outcome = "ok", !.result = row]]
          ELSE /\ UNCHANGED <<conversations, recency>>
               /\ calls' = [calls EXCEPT ![c] =
                    [@ EXCEPT !.pc = "done", !.outcome = "ok",
                              !.result = conversation]]
  /\ UNCHANGED <<messages, staffConversations, posted, lastRead>>

NextReconcile ==
  \/ \E c \in CallIds, key \in ExtIds, data \in Candidates :
       UpsertConversation(c, key, data)
  \/ \E c \in CallIds : UpsertConversationUpdate(c)

SpecReconcile == Init /\ [][NextReconcile]_vars

\* ------------------------------------------------------------------------
\* Claims about the Conversation Reconciler
\* ------------------------------------------------------------------------

\* a fill-once field holds a value
Filled(v) == ~Falsy(v)

\* C2: under any interleaving of upsertConversation calls, a row's customerId
\* or source, once non-empty, is never replaced by another value nor cleared.
C2_FillOnceMonotone ==
  [][\A i \in 1..Len(conversations) :
       /\ Filled(conversations[i].customerId)
            => conversations'[i].customerId = conversations[i].customerId
       /\ Filled(conversations[i].source)
            => conversations'[i].source = conversations[i].source]_vars

\* C3: the external identity of a row, once non-null, is never changed by a
\* later upsertConversation call, whatever the candidate record holds.
C3_ExternalIdentityKept ==
  [][\A i \in 1..Len(conversations) :
       conversations[i].sunshineConversationId # Null
         => conversations'[i].sunshineConversationId
              = conversations[i].sunshineConversationId]_vars

\* C4: on an existing row upsertConversation changes no field other than
\* customerId and source; here: the row's id and type stay as they were.
C4_OtherFieldsKept ==
  [][\A i \in 1..Len(conversations) :
       /\ conversations'[i].id = conversations[i].id
       /\ conversations'[i].type = conversations[i].type]_vars

\* call c ran upsertConversation to its end after call d had returned, with
\* the same external identity and the same candidate data
Repeated(d, c) ==
  /\ d # c
  /\ calls[d].op = "upsertConversation" /\ calls[d].pc = "done"
  /\ calls[c].op = "upsertConversation" /\ calls[c].pc = "done"
  /\ calls[d].outcome = "ok"
  /\ d \in calls[c].after
  /\ calls[c].key = calls[d].key
  /\ calls[c].data = calls[d].data

\* C5: upsertConversation called twice with the same external identity and
\* candidate data leaves exactly one row with that identity, and the second
\* call leaves the already-set customerId and source as the first left them.
C5_UpsertIdempotent ==
  \A d \in CallIds, c \in CallIds :
    Repeated(d, c) =>
      /\ Cardinality(ConversationsByExt(Str(calls[c].key))) = 1
      /\ calls[c].outcome = "ok" =>
           /\ Filled(calls[d].result.customerId)
                => calls[c].result.customerId = calls[d].result.customerId
           /\ Filled(calls[d].result.source)
                => calls[c].result.source = calls[d].result.source

\* ------------------------------------------------------------------------
\* Ability Facade, reads (src/lib/services/abilities/abilities.ts)
\* ------------------------------------------------------------------------

\* args.x || d for an optional number
OrElse(v, d) == IF v = Absent \/ Falsy(v) THEN d ELSE v.n

\* _.clamp(number, lower, upper)
clamp(number, lower, upper) ==
  LET n == IF number <= upper THEN number ELSE upper
  IN IF n >= lower THEN n ELSE lower

normalizePages(args) ==
  [limit |-> clamp(OrElse(args.limit, 25), 0, 100),
   offset |-> clamp(OrElse(args.offset, 0), 0, 100)]

\* _.pick(args, keys): the keys of `keys` that are present in args
pick(args, keys) ==
  [k \in WhereKeys |-> IF k \in keys THEN args[k] ELSE Absent]

\* { ...a, ...b }: a key present in b, even with undefined, replaces a's
spread(a, b) ==
  [k \in WhereKeys |-> IF b[k] # Absent THEN b[k] ELSE a[k]]

\* clean = _.pickBy(obj, _.identity): keeps the keys with a truthy value
clean(obj) ==
  [k \in DOMAIN obj |-> IF obj[k] = Absent \/ Falsy(obj[k]) THEN Absent ELSE obj[k]]

\* the value a Conversation row holds under a where-clause key
ConvField(row, k) ==
  CASE k = "type" -> Str(row.type)
    [] k = "id" -> Num(row.id)
    [] k = "customerId" -> row.customerId

\* the store's equality filter: an undefined constraint is no constraint
Matches(row, where) ==
  \A k \in WhereKeys :
    where[k] \in {Absent, Undefined} \/ ConvField(row, k) = where[k]

\* db.conversation.findMany, ordered by updatedAt desc
findManyConversations(where, skip, take) ==
  LET ids == SelectIds(recency, LAMBDA i : Matches(conversations[i], where), 1)
      page == Page(ids, skip, take)
  IN [j \in 1..Len(page) |-> conversations[page[j]]]

\* the where clause getConversations hands to the store
conversationsWhere(staff, args) ==
  clean(spread(getConversationRules(staff),
               pick(args, {"type", "id", "customerId"})))

getConversations(staff, args) ==
  LET p == normalizePages(args)
  IN findManyConversations(conversationsWhere(staff, args), p.offset, p.limit)

ConvArgs(type, id, customerId, limit, offset) ==
  [type |-> type, id |-> id, customerId |-> customerId, limit |-> limit,
   offset |-> offset]

getConversationById(staff, id) ==
  LET rows == getConversations(staff,
                ConvArgs(Absent, Num(id), Absent, Num(1), Num(0)))
  IN IF rows = <<>> THEN Null ELSE rows[1]

\* getMessages without the relation filter on the owning conversation
messagesWhere_unscoped(staff, args) ==
  clean([conversation |-> Absent,
         id |-> IF args.id = Absent THEN Undefined ELSE args.id,
         conversationId |-> IF args.conversationId = Absent THEN Undefined
                            ELSE args.conversationId])

\* the where clause getMessages hands to the store
messagesWhere(staff, args) ==
  clean([conversation |-> Obj(getConversationRules(staff)),
         id |-> IF args.id = Absent THEN Undefined ELSE args.id,
         conversationId |-> IF args.conversationId = Absent THEN Undefined
                            ELSE args.conversationId])

\* the relation filter `conversation: rules` and the equality filters
MatchesMessage(m, where) ==
  /\ where.conversation = Absent
       \/ /\ m.conversationId \in 1..Len(conversations)
          /\ Matches(conversations[m.conversationId], where.conversation.o)
  /\ where.id \in {Absent, Undefined} \/ Num(m.id) = where.id
  /\ where.conversationId \in {Absent, Undefined}
       \/ Num(m.conversationId) = where.conversationId

\* createdAt ascending is the order of the ids
MessageOrder(order) ==
  IF order = "asc" THEN [i \in 1..Len(messages) |-> i]
  ELSE [i \in 1..Len(messages) |-> Len(messages) + 1 - i]

\* db.message.findMany
findManyMessages(where, skip, take, order) ==
  LET ids == SelectIds(MessageOrder(order),
                       LAMBDA i : MatchesMessage(messages[i], where), 1)
      page == Page(ids, skip, take)
  IN [j \in 1..Len(page) |-> messages[page[j]]]

getMessages(staff, args) ==
  LET p == normalizePages(args)
  IN findManyMessages(messagesWhere(staff, args), p.offset, p.limit,
                      IF args.order = Absent \/ Falsy(args.order) THEN "desc"
                      ELSE args.order.s)

MsgArgs(id, conversationId, order, limit, offset) ==
  [id |-> id, conversationId |-> conversationId, order |-> order,
   limit |-> limit, offset |-> offset]

getMessageById(staff, id) ==
  LET rows == getMessages(staff, MsgArgs(Num(id), Absent, Absent, Num(1), Num(0)))
  IN IF rows = <<>> THEN Null ELSE rows[1]

\* ids a caller may ask for: 0, the ids of the rows, and one past them
ConvIdArgs == 0..(Len(conversations) + 1)

MsgIdArgs == 0..(Len(messages) + 1)

\* the filter arguments a caller may pass to getConversations
ConversationsArgs ==
  [type : {Absent, Undefined} \cup {Str(t) : t \in ConversationType},
   id : {Absent, Undefined} \cup {Num(i) : i \in ConvIdArgs},
   customerId : {Absent, Undefined} \cup {Num(n) : n \in CustomerIds},
   limit : {Absent, Num(1)},
   offset : {Absent, Num(1)}]

\* the filter arguments a caller may pass to getMessages
MessageArgs ==
  [id : {Absent, Undefined} \cup {Num(i) : i \in MsgIdArgs},
   conversationId : {Absent, Undefined} \cup {Num(i) : i \in ConvIdArgs},
   order : {Absent, Str("asc")},
   limit : {Absent, Num(1)},
   offset : {Absent}]

Read(op, staff, args, result) ==
  /\ lastRead = NoRead
  /\ lastRead' = [op |-> op, staff |-> staff, args |-> args, result |-> result]
  /\ UNCHANGED <<conversations, recency, messages, staffConversations, posted,
                 calls>>

GetConversations(staff, args) ==
  Read("getConversations", staff, args, getConversations(staff, args))

GetConversationById(staff, id) ==
  Read("getConversationById", staff, id, getConversationById(staff, id))

GetMessages(staff, args) ==
  Read("getMessages", staff, args, getMessages(staff, args))

GetMessageById(staff, id) ==
  Read("getMessageById", staff, id, getMessageById(staff, id))

\* the reconciler calls that run beside the reads
MaxReadWriters == 1

\* the candidates the webhook path hands to the reconciler beside the reads
ReadCandidates ==
  {d \in Candidates : d.source = Null /\ d.customerId = Null}

\* the response of the read goes back to the caller
ReturnRead ==
  /\ lastRead # NoRead
  /\ lastRead' = NoRead
  /\ UNCHANGED <<conversations, recency, messages, staffConversations, posted,
                 calls>>

\* no read is being served
Quiet == lastRead = NoRead

NextRead ==
  \/ \E staff \in Staffs, args \in ConversationsArgs : GetConversations(staff, args)
  \/ \E staff \in Staffs, id \in ConvIdArgs : GetConversationById(staff, id)
  \/ \E staff \in Staffs, args \in MessageArgs : GetMessages(staff, args)
  \/ \E staff \in Staffs, id \in MsgIdArgs : GetMessageById(staff, id)
  \/ ReturnRead
  \/ \E c \in 1..MaxReadWriters, key \in ExtIds, data \in ReadCandidates :
       Quiet /\ UpsertConversation(c, key, data)
  \/ \E c \in 1..MaxReadWriters : Quiet /\ UpsertConversationUpdate(c)

SpecRead == Init /\ [][NextRead]_vars

\* ------------------------------------------------------------------------
\* Claims about the reads of the facade
\* ------------------------------------------------------------------------

\* the row satisfies the rule predicate of the principal
Visible(staff, row) == Matches(row, getConversationRules(staff))

\* the messages of conversation i
MessagesOf(i) == {j \in 1..Len(messages) : messages[j].conversationId = i}

\* C6: for every staff principal P and every conversation C outside the rule
\* predicate of P, getConversationById(C.id) returns null, getMessages
\* restricted to conversationId = C.id is empty and getMessageById of any
\* message of C returns null, in every store state.
C6_OutOfScopeHidden ==
  \A P \in Staffs, i \in 1..Len(conversations) :
    ~Visible(P, conversations[i]) =>
      /\ getConversationById(P, i) = Null
      /\ \A args \in MessageArgs :
           args.conversationId = Num(i) => getMessages(P, args) = <<>>
      /\ \A j \in MessagesOf(i) : getMessageById(P, j) = Null

\* C6 witness: a principal asked for the messages of an existing conversation
\* outside its scope, which holds messages, and was served the empty sequence
C6_Witness ==
  /\ lastRead.op = "getMessages"
  /\ lastRead.result = <<>>
  /\ \E i \in 1..Len(conversations) :
       /\ lastRead.args.conversationId = Num(i)
       /\ lastRead.args.id = Absent
       /\ ~Visible(lastRead.staff, conversations[i])
       /\ MessagesOf(i) # {}

\* C7: whatever filter arguments the caller passes, every row getConversations
\* returns satisfies the rule predicate of the principal.
C7_RulesAlwaysApply ==
  lastRead.op = "getConversations" =>
    \A j \in 1..Len(lastRead.result) : Visible(lastRead.staff, lastRead.result[j])

\* ------------------------------------------------------------------------
\* Store primitives on Message and StaffConversation, and the provider
\* ------------------------------------------------------------------------

\* a row may only reference a Conversation row that exists
ConversationExists(id) == id \in 1..Len(conversations)

\* the rows whose provider message identity is `pid`
MessagesByPid(pid) ==
  {j \in 1..Len(messages) : messages[j].sunshineMessageId = pid}

\* the rows joining staff `staffId` to conversation `id`
StaffConversationsOf(staffId, id) ==
  {j \in 1..Len(staffConversations) :
     /\ staffConversations[j].staffId = staffId
     /\ staffConversations[j].conversationId = id}

\* the identities the provider assigns, in the order it assigns them
ProviderMessageIds == <<"prov-1", "prov-2", "prov-3", "prov-4">>

\* the content payloads staff send
Contents == {"hello"}

\* ------------------------------------------------------------------------
\* Ability Facade, writes (abilities.ts and index.ts)
\* ------------------------------------------------------------------------

\* config of abilities.ts is the module-level object loadConfig() returns
config == TRUE

SendOps == {"sendMessage", "sendMessageIndex"}

NewCall(op, staff, user, id, content, cfg) ==
  [op |-> op, pc |-> "start", staff |-> staff, user |-> user,
   conversationId |-> id, content |-> content, config |-> cfg,
   conversation |-> Null, sunshineMessageId |-> Null, outcome |-> "pending",
   result |-> Null, log |-> <<>>]

\* the call ends by throwing `outcome`
Throw(call, outcome) == [call EXCEPT !.pc = "done", !.outcome = outcome]

\* the call ends by returning `row`
Return(call, row) ==
  [call EXCEPT !.pc = "done", !.outcome = "ok", !.result = row]

\* const unsaveMessage plus the resolved provider identity
unsaveMessage(call, pid) ==
  MsgRow(Len(messages) + 1, call.conversationId, call.content, pid, STAFF,
         call.staff.id)

\* where sendMessage of abilities.ts goes after the join (lines 162-168)
afterJoin(conversation) ==
  IF conversation.type # CUSTOMER \/ ~config THEN "create"
  ELSE IF ~Falsy(conversation.sunshineConversationId) THEN "post"
  ELSE "persist"

\* the branch of index.ts without its test of the bridge configuration
afterResolveIndex_noConfig(conversation, cfg) ==
  IF conversation.type # CUSTOMER THEN "create" ELSE "post"

\* where sendMessage of index.ts goes after the access check (line 113)
afterResolveIndex(conversation, cfg) ==
  IF conversation.type # CUSTOMER \/ ~cfg THEN "create" ELSE "post"

\* abilities.ts sendMessage, up to the access check (lines 147-149)
SendMessage(c, staff, id, content) ==
  /\ CanStart(c)
  /\ LET call == NewCall("sendMessage", staff, staff, id, content, config)
         conversation == getConversationById(staff, id)
     IN calls' = [calls EXCEPT ![c] =
          IF conversation = Null THEN Throw(call, "forbidden")
          ELSE [call EXCEPT !.pc = "joinCheck", !.conversation = conversation]]
  /\ UNCHANGED <<conversations, recency, messages, staffConversations, posted,
                 lastRead>>

\* index.ts sendMessage, up to the branch on the conversation type
SendMessageIndex(c, staff, id, content, cfg) ==
  /\ CanStart(c)
  /\ LET call == NewCall("sendMessageIndex", staff, staff, id, content, cfg)
         conversation == getConversationById(staff, id)
     IN calls' = [calls EXCEPT ![c] =
          IF conversation = Null THEN Throw(call, "forbidden")
          ELSE [call EXCEPT !.pc = afterResolveIndex(conversation, cfg),
                            !.conversation = conversation]]
  /\ UNCHANGED <<conversations, recency, messages, staffConversations, posted,
                 lastRead>>

\* the two checks of addToConversation (lines 88-99)
joinCheck(staff, user, id) ==
  LET conversation == getConversationById(staff, id)
  IN IF conversation = Null THEN "forbidden"
     ELSE IF conversation.type \notin allowedConversationTypes(user)
       THEN "forbidden"
     ELSE "joinUpsert"

\* addToConversation called by a client, up to its two checks
AddToConversation(c, staff, id, user) ==
  /\ CanStart(c)
  /\ LET call == NewCall("addToConversation", staff, user, id, "", config)
         next == joinCheck(staff, user, id)
     IN calls' = [calls EXCEPT ![c] =
          IF next = "forbidden" THEN Throw(call, "forbidden")
          ELSE [call EXCEPT !.pc = next]]
  /\ UNCHANGED <<conversations, recency, messages, staffConversations, posted,
                 lastRead>>

\* joinConversation inside sendMessage: addToConversation(id, staff)
JoinCheck(c) ==
  /\ calls[c].pc = "joinCheck"
  /\ LET call == calls[c]
         next == joinCheck(call.staff, call.user, call.conversationId)
     IN calls' = [calls EXCEPT ![c] =
          IF next = "forbidden" THEN Throw(call, "forbidden")
          ELSE [call EXCEPT !.pc = next]]
  /\ UNCHANGED <<conversations, recency, messages, staffConversations, posted,
                 lastRead>>

\* a plain create in place of the upsert of the join row: no row is found
joinTarget_create(compoundId) == {}

\* the rows the upsert of addToConversation finds:
\* where { staffId_conversationId: compoundId }
joinTarget(compoundId) ==
  StaffConversationsOf(compoundId.staffId, compoundId.conversationId)

\* db.staffConversations.upsert (lines 101-112), then lines 162-168
JoinUpsert(c) ==
  /\ calls[c].pc = "joinUpsert"
  /\ LET call == calls[c]
         row == [staffId |-> call.user.id, conversationId |-> call.conversationId]
         hit == joinTarget(row)
         joined == [call EXCEPT !.log = Append(@, "join")]
     IN IF hit = {} /\ ~ConversationExists(row.conversationId)
          THEN /\ calls' = [calls EXCEPT ![c] = Throw(call, "storeError")]
               /\ UNCHANGED staffConversations
          ELSE /\ staffConversations' =
                    IF hit = {} THEN Append(staffConversations, row)
                    ELSE staffConversations
               /\ calls' = [calls EXCEPT ![c] =
                    IF call.op = "addToConversation" THEN Return(joined, row)
                    ELSE [joined EXCEPT !.pc = afterJoin(call.conversation)]]
  /\ UNCHANGED <<conversations, recency, messages, posted, lastRead>>

\* db.message.create({ data: unsaveMessage })
Create(c) ==
  /\ calls[c].pc = "create"
  /\ LET call == calls[c]
         row == unsaveMessage(call, Null)
     IN IF ~ConversationExists(row.conversationId)
          THEN /\ calls' = [calls EXCEPT ![c] = Throw(call, "storeError")]
               /\ UNCHANGED messages
          ELSE /\ messages' = Append(messages, row)
               /\ calls' = [calls EXCEPT ![c] =
                    Return([call EXCEPT !.log = Append(@, "create")], row)]
  /\ UNCHANGED <<conversations, recency, staffConversations, posted, lastRead>>

\* the provider error swallowed: sendMessage goes on to persist the message
postFailed_swallowed(call) ==
  [call EXCEPT !.pc = "persist", !.log = Append(@, "postFailed")]

\* the provider call threw: the rejection leaves sendMessage
postFailed(call) ==
  Throw([call EXCEPT !.log = Append(@, "postFailed")], "providerError")

\* the provider answered with the identity it assigned
postDone(call, pid) ==
  [call EXCEPT !.pc = "persist", !.sunshineMessageId = pid,
               !.log = Append(@, "post")]

\* sunshineMessages.postMessage: the provider accepts the message or fails;
\* its client rejects a call without a conversation identity
Post(c) ==
  /\ calls[c].pc = "post"
  /\ LET call == calls[c]
         ext == call.conversation.sunshineConversationId
     IN \/ /\ calls' = [calls EXCEPT ![c] = postFailed(call)]
           /\ UNCHANGED posted
        \/ /\ ~Falsy(ext)
           /\ Len(posted) < Len(ProviderMessageIds)
           /\ posted' = Append(posted, [ext |-> ext, content |-> call.content,
                                        echoed |-> FALSE])
           /\ calls' = [calls EXCEPT ![c] =
                postDone(call, Str(ProviderMessageIds[Len(posted) + 1]))]
  /\ UNCHANGED <<conversations, recency, messages, staffConversations, lastRead>>

\* a plain create in place of the keyed upsert: no row is ever found
upsertTarget_create(sunshineMessageId) == {}

\* the rows the keyed upsert of sendMessage finds: where { sunshineMessageId }
upsertTarget(sunshineMessageId) == MessagesByPid(sunshineMessageId)

\* db.message.upsert with a provider identity (update: {} leaves the row)
PersistKeyed(c) ==
  /\ calls[c].pc = "persist"
  /\ calls[c].sunshineMessageId # Null
  /\ LET call == calls[c]
         hit == upsertTarget(call.sunshineMessageId)
         row == unsaveMessage(call, call.sunshineMessageId)
     IN IF hit # {}
          THEN /\ calls' = [calls EXCEPT ![c] =
                    Return([call EXCEPT !.log = Append(@, "found")],
                           messages[CHOOSE j \in hit : TRUE])]
               /\ UNCHANGED messages
          ELSE IF ~ConversationExists(row.conversationId)
          THEN /\ calls' = [calls EXCEPT ![c] = Throw(call, "storeError")]
               /\ UNCHANGED messages
          ELSE /\ messages' = Append(messages, row)
               /\ calls' = [calls EXCEPT ![c] =
                    Return([call EXCEPT !.log = Append(@, "create")], row)]
  /\ UNCHANGED <<conversations, recency, staffConversations, posted, lastRead>>

\* db.message.upsert where { sunshineMessageId: null }: the store rejects the
\* null key, or matches a row whose identity is null, or matches no row
PersistNull(c) ==
  /\ calls[c].pc = "persist"
  /\ calls[c].sunshineMessageId = Null
  /\ LET call == calls[c]
         hit == upsertTarget(Null)
         row == unsaveMessage(call, Null)
     IN \/ /\ calls' = [calls EXCEPT ![c] = Throw(call, "storeError")]
           /\ UNCHANGED messages
        \/ /\ hit # {}
           /\ \E j \in hit :
                calls' = [calls EXCEPT ![c] =
                  Return([call EXCEPT !.log = Append(@, "found")], messages[j])]
           /\ UNCHANGED messages
        \/ /\ ConversationExists(row.conversationId)
           /\ messages' = Append(messages, row)
           /\ calls' = [calls EXCEPT ![c] =
                Return([call EXCEPT !.log = Append(@, "create")], row)]
  /\ UNCHANGED <<conversations, recency, staffConversations, posted, lastRead>>

\* the id of the conversation with external identity `ext`
ConversationOfExt(ext) == CHOOSE i \in ConversationsByExt(ext) : TRUE

\* the provider's webhook echoes posted message k: the Conversation/Message
\* write path upserts the row keyed on the provider identity
WebhookMessage(k) ==
  /\ k \in 1..Len(posted)
  /\ ~posted[k].echoed
  /\ ConversationsByExt(posted[k].ext) # {}
  /\ LET pid == Str(ProviderMessageIds[k])
         row == MsgRow(Len(messages) + 1, ConversationOfExt(posted[k].ext),
                       posted[k].content, pid, SYSTEM, 0)
     IN messages' = IF MessagesByPid(pid) # {} THEN messages
                    ELSE Append(messages, row)
  /\ posted' = [posted EXCEPT ![k].echoed = TRUE]
  /\ UNCHANGED <<conversations, recency, staffConversations, calls, lastRead>>

NextSend ==
  \/ \E c \in CallIds, staff \in Staffs, id \in ConvIdArgs, content \in Contents :
       SendMessage(c, staff, id, content)
  \/ \E c \in CallIds, staff \in Staffs, id \in ConvIdArgs, content \in Contents,
        cfg \in BOOLEAN :
       SendMessageIndex(c, staff, id, content, cfg)
  \/ \E c \in CallIds : JoinCheck(c)
  \/ \E c \in CallIds : JoinUpsert(c)
  \/ \E c \in CallIds : Create(c)
  \/ \E c \in CallIds : Post(c)
  \/ \E c \in CallIds : PersistKeyed(c)
  \/ \E c \in CallIds : PersistNull(c)
  \/ \E k \in 1..Len(posted) : WebhookMessage(k)

SpecSend == Init /\ [][NextSend]_vars

\* sendMessage of abilities.ts called by every kind of principal
NextAccess ==
  \/ \E c \in CallIds, staff \in Principals, id \in ConvIdArgs,
        content \in Contents :
       SendMessage(c, staff, id, content)
  \/ \E c \in CallIds : JoinCheck(c)
  \/ \E c \in CallIds : JoinUpsert(c)
  \/ \E c \in CallIds : Create(c)
  \/ \E c \in CallIds : Post(c)
  \/ \E c \in CallIds : PersistKeyed(c)
  \/ \E c \in CallIds : PersistNull(c)

SpecAccess == Init /\ [][NextAccess]_vars

\* addToConversation and joinConversation called by clients
NextJoin ==
  \/ \E c \in CallIds, staff \in Staffs, id \in ConvIdArgs, user \in Staffs :
       AddToConversation(c, staff, id, user)
  \/ \E c \in CallIds : JoinUpsert(c)

SpecJoin == Init /\ [][NextJoin]_vars

\* the numbers a caller may pass as limit or offset: negative, zero, in
\* range, at the edges of the range and oversized
PageNumbers == {-5, -1, 0, 1, 24, 25, 26, 99, 100, 101, 250}

\* an optional number: not given, given as undefined, or a number
PageInputs == {Absent, Undefined} \cup {Num(n) : n \in PageNumbers}

\* CollectionArgs
PageArgs == [limit : PageInputs, offset : PageInputs]

\* a read normalizes the pagination arguments of its caller
NormalizePages(args) ==
  /\ lastRead = NoRead
  /\ lastRead' = [op |-> "normalizePages", args |-> args,
                  result |-> normalizePages(args)]
  /\ UNCHANGED <<conversations, recency, messages, staffConversations, posted,
                 calls>>

NextPages ==
  \/ \E args \in PageArgs : NormalizePages(args)
  \/ ReturnRead

SpecPages == Init /\ [][NextPages]_vars

\* every operation of the program
Next ==
  \/ NextPages
  \/ NextRead
  \/ Quiet /\ NextReconcile
  \/ Quiet /\ NextSend
  \/ Quiet /\ NextJoin
  \/ Quiet /\ NextAccess

Spec == Init /\ [][Next]_vars

\* ------------------------------------------------------------------------
\* Claims about sendMessage
\* ------------------------------------------------------------------------

\* call slot c runs or ran sendMessage (either facade)
IsSend(c) == calls[c].op \in SendOps

\* event e is in the log of what the call did
Did(call, e) == \E n \in 1..Len(call.log) : call.log[n] = e

\* C1: under any interleaving of sendMessage calls and webhook writes, the
\* store holds at most one Message row per non-null provider message identity.
C1_OneRowPerProviderIdentity ==
  \A j \in 1..Len(messages), k \in 1..Len(messages) :
    (messages[j].sunshineMessageId # Null
       /\ messages[j].sunshineMessageId = messages[k].sunshineMessageId)
      => j = k

\* C1 witness: a sendMessage call went through its keyed upsert with a
\* provider identity that the webhook also wrote, and one row holds it
C1_Witness ==
  \E c \in CallIds, k \in 1..Len(posted) :
    /\ IsSend(c)
    /\ calls[c].pc = "done" /\ calls[c].outcome = "ok"
    /\ calls[c].sunshineMessageId = Str(ProviderMessageIds[k])
    /\ posted[k].echoed
    /\ Cardinality(MessagesByPid(calls[c].sunshineMessageId)) = 1

\* the conversation the call names exists and is visible to the sender
TargetVisible(call) ==
  /\ ConversationExists(call.conversationId)
  /\ Visible(call.staff, conversations[call.conversationId])

\* C8: if the target conversation is not visible to the sending staff,
\* sendMessage fails with access-denied and has no effect: it creates no
\* Message row and no StaffConversation row and never calls the provider.
C8_InvisibleTargetDenied ==
  \A c \in CallIds :
    (IsSend(c) /\ ~TargetVisible(calls[c])) =>
      /\ calls[c].log = <<>>
      /\ calls[c].pc = "done" => calls[c].outcome = "forbidden"

\* C9: whenever sendMessage returns a message for staff S and conversation C,
\* a StaffConversation row for (S, C) exists, ensured before the provider was
\* called and before the message was persisted.
C9_SendingImpliesJoining ==
  \A c \in CallIds :
    (IsSend(c) /\ calls[c].pc = "done" /\ calls[c].outcome = "ok") =>
      /\ StaffConversationsOf(calls[c].staff.id, calls[c].conversationId) # {}
      /\ calls[c].log[1] = "join"

\* C10: if the provider call of sendMessage fails, the error reaches the
\* caller and the call creates no Message row.
C10_ProviderFailurePropagates ==
  \A c \in CallIds :
    (IsSend(c) /\ Did(calls[c], "postFailed")) =>
      /\ calls[c].pc = "done"
      /\ calls[c].outcome = "providerError"
      /\ ~Did(calls[c], "create")
      /\ ~Did(calls[c], "found")

\* C10 witness: the provider call of a sendMessage that had joined the
\* conversation failed, and the caller got the provider's error
C10_Witness ==
  \E c \in CallIds :
    /\ calls[c].op = "sendMessage"
    /\ calls[c].log = <<"join", "postFailed">>
    /\ calls[c].pc = "done"
    /\ calls[c].outcome = "providerError"

\* the row the webhook write path stores for provider identity `pid` under id
EchoOf(pid, id) ==
  LET k == CHOOSE n \in 1..Len(posted) : Str(ProviderMessageIds[n]) = pid
  IN MsgRow(id, ConversationOfExt(posted[k].ext), posted[k].content, pid,
            SYSTEM, 0)

\* C11: when sendMessage reaches its persistence step with the identity the
\* provider assigned, it ends without an error and one row holds that
\* identity: either the row the webhook had written, returned with every
\* field as the webhook wrote it and no row created, or else the row the call
\* created with the sender's fields and the resolved identity.
C11_UpsertReturnsExisting ==
  \A c \in CallIds :
    (calls[c].op = "sendMessage" /\ Did(calls[c], "post")
       /\ calls[c].pc = "done") =>
      LET call == calls[c]
          pid == call.sunshineMessageId
          hit == MessagesByPid(pid)
      IN /\ call.outcome = "ok"
         /\ Cardinality(hit) = 1
         /\ \A j \in hit :
              /\ call.result = messages[j]
              /\ Did(call, "found") /\ ~Did(call, "create")
                   => messages[j] = EchoOf(pid, j)
              /\ ~Did(call, "found")
                   => /\ Did(call, "create")
                      /\ messages[j] = MsgRow(j, call.conversationId,
                                              call.content, pid, STAFF,
                                              call.staff.id)
              /\ ~(Did(call, "found") /\ Did(call, "create"))

\* C11 witness: the webhook wrote the row first, and the persistence step of
\* sendMessage returned that row
C11_Witness ==
  \E c \in CallIds :
    /\ calls[c].op = "sendMessage"
    /\ calls[c].pc = "done" /\ calls[c].outcome = "ok"
    /\ Did(calls[c], "found")
    /\ calls[c].result.sunshineMessageId # Null
    /\ calls[c].result.authorType = SYSTEM

\* ------------------------------------------------------------------------
\* Claims about addToConversation and joinConversation
\* ------------------------------------------------------------------------

\* both checks of addToConversation pass: the conversation is visible to the
\* acting staff and its type is one the target principal may join
BothChecksPass(call) ==
  /\ TargetVisible(call)
  /\ conversations[call.conversationId].type
       \in allowedConversationTypes(call.user)

\* C12: addToConversation creates or keeps a StaffConversation row only when
\* the conversation is visible to the acting staff and its type is among the
\* types the target may join; otherwise it fails with access-denied and
\* touches no StaffConversation row.
C12_BothChecksOrDenied ==
  \A c \in CallIds :
    (calls[c].op = "addToConversation" /\ ~BothChecksPass(calls[c])) =>
      /\ calls[c].log = <<>>
      /\ calls[c].pc = "done" => calls[c].outcome = "forbidden"

\* C13: there is at most one StaffConversation row per (staff, conversation)
\* pair, and every join that returned left exactly one row for its pair.
C13_JoinIdempotent ==
  /\ \A j \in 1..Len(staffConversations), k \in 1..Len(staffConversations) :
       staffConversations[j] = staffConversations[k] => j = k
  /\ \A c \in CallIds :
       (calls[c].op = "addToConversation" /\ calls[c].pc = "done"
          /\ calls[c].outcome = "ok") =>
         /\ Len(SelectIds([j \in 1..Len(staffConversations) |-> j],
                          LAMBDA j : staffConversations[j] = calls[c].result,
                          1)) = 1
         /\ calls[c].result = [staffId |-> calls[c].user.id,
                               conversationId |-> calls[c].conversationId]

\* C13 witness: two joins of the same staff to the same conversation have
\* both returned, and the store holds one row
C13_Witness ==
  \E c \in CallIds, d \in CallIds :
    /\ c # d
    /\ calls[c].op = "addToConversation" /\ calls[d].op = "addToConversation"
    /\ calls[c].pc = "done" /\ calls[c].outcome = "ok"
    /\ calls[d].pc = "done" /\ calls[d].outcome = "ok"
    /\ calls[c].result = calls[d].result
    /\ Len(staffConversations) = 1

\* ------------------------------------------------------------------------
\* Claims about the paths of sendMessage
\* ------------------------------------------------------------------------

\* the conversation the call resolved is not bridged to the provider
NotBridged(call) ==
  /\ call.conversation # Null
  /\ call.conversation.type # CUSTOMER \/ ~call.config

\* what the call did besides joining the conversation
Effects(call) ==
  SelectIds(call.log, LAMBDA e : e # "join", 1)

\* C14: when the conversation is not of type CUSTOMER or no bridge is
\* configured, a sendMessage that returns has not called the provider, has
\* created exactly one new Message row with a null provider identity, author
\* type STAFF, the sender as author and the given content, and returns it.
C14_UnbridgedCreatesPlainRow ==
  \A c \in CallIds :
    (IsSend(c) /\ NotBridged(calls[c]) /\ calls[c].pc = "done"
       /\ calls[c].outcome = "ok") =>
      LET call == calls[c]
          row == call.result
      IN /\ Effects(call) = <<"create">>
         /\ row.id \in (Len(SeedMessages) + 1)..Len(messages)
         /\ messages[row.id] = row
         /\ row = MsgRow(row.id, call.conversationId, call.content, Null,
                         STAFF, call.staff.id)

\* C14 witness: a send to an internal conversation and a send without a
\* bridge configuration to a CUSTOMER conversation have both returned
C14_Witness ==
  \E c \in CallIds, d \in CallIds :
    /\ calls[c].op = "sendMessage" /\ calls[c].pc = "done"
    /\ calls[c].outcome = "ok" /\ calls[c].conversation.type = PRIVATE
    /\ calls[d].op = "sendMessageIndex" /\ calls[d].pc = "done"
    /\ calls[d].outcome = "ok" /\ calls[d].conversation.type = CUSTOMER
    /\ ~calls[d].config

\* ------------------------------------------------------------------------
\* Claims about the pagination normalizer
\* ------------------------------------------------------------------------

\* n clamped into [0, 100]
InRange(n) == IF n < 0 THEN 0 ELSE IF n > 100 THEN 100 ELSE n

\* the normalized value of an optional number with default d
Normalized(v, d) == IF v \in {Absent, Undefined} THEN d ELSE InRange(v.n)

\* C15: for every pair of optional integer inputs, normalizePages returns the
\* requested limit clamped into [0, 100], or 25 when the limit is absent, and
\* the requested offset clamped into [0, 100], or 0 when the offset is absent.
C15_PagesClamped ==
  lastRead.op = "normalizePages" =>
    /\ lastRead.result.limit = Normalized(lastRead.args.limit, 25)
    /\ lastRead.result.offset = Normalized(lastRead.args.offset, 0)

\* ------------------------------------------------------------------------
\* Claims about the access check of sendMessage
\* ------------------------------------------------------------------------

\* C16: the only access check of sendMessage is the visibility of the
\* conversation to the sender: a sendMessage by staff S to a conversation
\* visible to S never ends with access-denied, whatever the conversation
\* types S may join.
C16_VisibilityIsTheOnlyCheck ==
  \A c \in CallIds :
    (IsSend(c) /\ TargetVisible(calls[c]) /\ calls[c].pc = "done") =>
      calls[c].outcome # "forbidden"

\* ------------------------------------------------------------------------
\* Claims about the single-row reads
\* ------------------------------------------------------------------------

\* C17: for every integer id, 0 included, getConversationById(id) returns
\* null or a conversation whose identifier is id, and getMessageById(id)
\* returns null or a message whose identifier is id.
C17_IdFilterKept ==
  lastRead.op \in {"getConversationById", "getMessageById"} =>
    \/ lastRead.result = Null
    \/ lastRead.result.id = lastRead.args

\* ------------------------------------------------------------------------
\* Claims about sends to a CUSTOMER conversation without external identity
\* ------------------------------------------------------------------------

\* the call went past the join for a CUSTOMER conversation that has no
\* external identity
NullIdentitySend(call) ==
  /\ call.op = "sendMessage"
  /\ Did(call, "join")
  /\ call.conversation.type = CUSTOMER
  /\ Falsy(call.conversation.sunshineConversationId)

\* C18: a sendMessage to a CUSTOMER conversation without external identity
\* skips the provider and persists the message with a null provider
\* identity: the call creates its own new row with its content and sender
\* and returns it, and no two such calls return the same row.
C18_NullIdentitySendsOwnRow ==
  \A c \in CallIds :
    (NullIdentitySend(calls[c]) /\ calls[c].pc = "done") =>
      LET call == calls[c]
          row == call.result
      IN /\ call.outcome = "ok"
         /\ Effects(call) = <<"create">>
         /\ row = MsgRow(row.id, call.conversationId, call.content, Null,
                         STAFF, call.staff.id)
         /\ messages[row.id] = row
         /\ \A d \in CallIds \ {c} :
              (NullIdentitySend(calls[d]) /\ calls[d].pc = "done") =>
                calls[d].result # row

====
